---------------------------- MODULE Spec2Model ----------------------------
(***************************************************************************)
(* State-machine model of the three command-line programs under            *)
(* src/scripts:                                                            *)
(*   send_telegram_post.py          (script = "post")                      *)
(*   send_telegram_race_results.py  (script = "race")                      *)
(*   monitor_news_group.py          (script = "monitor")                   *)
(* Text is modelled as sequences of one-character strings, so that         *)
(* strip/split/replace/slice are computed the way the Python code          *)
(* computes them.                                                          *)
(***************************************************************************)
EXTENDS Integers, Sequences, FiniteSets, TLC

VARIABLES
    script,     \* which program this run executes
    args,       \* parsed command line (senders); empty record for the monitor
    pc,         \* position of the main coroutine
    exit_code,  \* process exit status, meaningful once pc = "exited"
    env,        \* environment variables as read by the program
    caption,    \* local variable caption / final of the senders
    isfile,     \* result of os.path.isfile on the media path ("unchecked" before)
    net,        \* Telegram client operations performed so far, in order
    out,        \* captions printed in dry-run or handed to a send call, in order
    json_data,  \* race sender: data, the parsed JSON document
    built,      \* race sender: the list built of resolve_caption
    registered, \* monitor: handle_new_message is registered with the client
    events,     \* monitor: the events delivered so far, in arrival order
    handlers,   \* monitor: the handler run of each delivered event
    sink        \* monitor: the POST requests the sink received, in order

vars == <<script, args, pc, exit_code, env, caption, isfile, net, out, json_data,
          built, registered, events, handlers, sink>>

\* the variables of the monitor, which the senders leave alone
monitor_vars == <<registered, events, handlers, sink>>

(***************************************************************************)
(* Program constants                                                       *)
(***************************************************************************)
CAPTION_MAX_CHARS == 1024

(***************************************************************************)
(* Bounds of the model                                                     *)
(***************************************************************************)
\* caption lengths range over CAPTION_MAX_CHARS - Slack .. CAPTION_MAX_CHARS + Slack
Slack == 3
\* number of whitespace characters put in front of and behind an input text
MaxPad == 1

(***************************************************************************)
(* Python str primitives                                                   *)
(***************************************************************************)
Whitespace == {" ", "\n", "\t", "\r"}

Rep(n, c) == [i \in 1..n |-> c]

Min2(a, b) == IF a <= b THEN a ELSE b

\* s[:n]
Prefix(s, n) == SubSeq(s, 1, Min2(n, Len(s)))

\* index of the last character of s[1..hi] that is not whitespace (0 if none)
RECURSIVE LastNonSpace(_, _)
LastNonSpace(s, hi) ==
    IF hi = 0 \/ s[hi] \notin Whitespace THEN hi ELSE LastNonSpace(s, hi - 1)

\* index of the first character of s[lo..] that is not whitespace (Len+1 if none)
RECURSIVE FirstNonSpace(_, _)
FirstNonSpace(s, lo) ==
    IF lo > Len(s) \/ s[lo] \notin Whitespace THEN lo ELSE FirstNonSpace(s, lo + 1)

\* str.rstrip()
RStrip(s) == SubSeq(s, 1, LastNonSpace(s, Len(s)))

\* str.strip()
Strip(s) == SubSeq(s, FirstNonSpace(s, 1), LastNonSpace(s, Len(s)))

\* str.replace(c, r) for a one-character pattern c
RECURSIVE Replace(_, _, _)
Replace(s, c, r) ==
    IF Len(s) = 0 THEN s
    ELSE IF Len(s) = 1 THEN (IF s[1] = c THEN r ELSE s)
    ELSE LET h == Len(s) \div 2
         IN  Replace(SubSeq(s, 1, h), c, r) \o Replace(SubSeq(s, h + 1, Len(s)), c, r)

\* the marker appended to a cut caption
Ellipsis == <<" ", ".", ".", ".">>

EndsWith(s, t) ==
    /\ Len(s) >= Len(t)
    /\ SubSeq(s, Len(s) - Len(t) + 1, Len(s)) = t

(***************************************************************************)
(* Python values, as json.load produces them.  A dict is the sequence of   *)
(* its <<key, value>> items in insertion order, keys unique.  A float is   *)
(* held in hundredths (v = 1240 is 12.4); the model's numbers have at most *)
(* two fraction digits.                                                    *)
(***************************************************************************)
PyNone == [t |-> "none"]

PyBool(b) == [t |-> "bool", v |-> b]

PyInt(n) == [t |-> "int", v |-> n]

PyFloat(h) == [t |-> "float", v |-> h]

PyStr(s) == [t |-> "str", v |-> s]

PyList(items) == [t |-> "list", v |-> items]

PyDict(items) == [t |-> "dict", v |-> items]

IsNone(v) == v.t = "none"

\* bool(v)
Truthy(v) ==
    CASE v.t = "none"  -> FALSE
      [] v.t = "bool"  -> v.v
      [] v.t = "int"   -> v.v # 0
      [] v.t = "float" -> v.v # 0
      [] OTHER         -> Len(v.v) > 0

\* a or b
Or(a, b) == IF Truthy(a) THEN a ELSE b

isinstance_dict(v) == v.t = "dict"

isinstance_list(v) == v.t = "list"

\* d.get(key) for a dict d: the value stored under key, else None
get(d, key) ==
    LET hits == {i \in 1..Len(d.v) : d.v[i][1] = key}
    IN  IF hits = {} THEN PyNone ELSE d.v[CHOOSE i \in hits : TRUE][2]

\* sep.join(parts) for a list of strings
RECURSIVE Join(_, _)
Join(parts, sep) ==
    IF Len(parts) = 0 THEN <<>>
    ELSE IF Len(parts) = 1 THEN parts[1]
    ELSE LET h == Len(parts) \div 2
         IN  Join(SubSeq(parts, 1, h), sep) \o sep \o
             Join(SubSeq(parts, h + 1, Len(parts)), sep)

Digit(d) == <<"0", "1", "2", "3", "4", "5", "6", "7", "8", "9">>[d + 1]

\* decimal digits of a natural number
RECURSIVE Digits(_)
Digits(n) == IF n < 10 THEN <<Digit(n)>> ELSE Digits(n \div 10) \o <<Digit(n % 10)>>

Abs(n) == IF n < 0 THEN -n ELSE n

Sign(n) == IF n < 0 THEN <<"-">> ELSE <<>>

\* repr of a float held in hundredths: 1240 -> 12.4, 500 -> 5.0, 5 -> 0.05
FloatRepr(h) ==
    LET a == Abs(h)
        frac == a % 100
    IN  Sign(h) \o Digits(a \div 100) \o <<".">> \o
        (IF frac % 10 = 0 THEN <<Digit(frac \div 10)>>
         ELSE <<Digit(frac \div 10), Digit(frac % 10)>>)

\* the characters of a dict key (keys are atomic strings in the model)
KeyChars(key) ==
    CASE key = "race_name" -> <<"r", "a", "c", "e", "_", "n", "a", "m", "e">>
      [] key = "name" -> <<"n", "a", "m", "e">>
      [] key = "title" -> <<"t", "i", "t", "l", "e">>
      [] key = "date" -> <<"d", "a", "t", "e">>
      [] key = "datetime" -> <<"d", "a", "t", "e", "t", "i", "m", "e">>
      [] key = "timestamp" -> <<"t", "i", "m", "e", "s", "t", "a", "m", "p">>
      [] key = "distance" -> <<"d", "i", "s", "t", "a", "n", "c", "e">>
      [] key = "surface" -> <<"s", "u", "r", "f", "a", "c", "e">>
      [] key = "track" -> <<"t", "r", "a", "c", "k">>
      [] key = "venue" -> <<"v", "e", "n", "u", "e">>
      [] key = "winner" -> <<"w", "i", "n", "n", "e", "r">>
      [] key = "number" -> <<"n", "u", "m", "b", "e", "r">>
      [] key = "no" -> <<"n", "o">>
      [] key = "post" -> <<"p", "o", "s", "t">>
      [] key = "odds" -> <<"o", "d", "d", "s">>
      [] key = "time" -> <<"t", "i", "m", "e">>
      [] key = "final_time" -> <<"f", "i", "n", "a", "l", "_", "t", "i", "m", "e">>
      [] key = "jockey" -> <<"j", "o", "c", "k", "e", "y">>
      [] key = "trainer" -> <<"t", "r", "a", "i", "n", "e", "r">>
      [] key = "owner" -> <<"o", "w", "n", "e", "r">>
      [] key = "payouts" -> <<"p", "a", "y", "o", "u", "t", "s">>
      [] key = "win" -> <<"w", "i", "n">>
      [] key = "place" -> <<"p", "l", "a", "c", "e">>
      [] key = "show" -> <<"s", "h", "o", "w">>
      [] key = "results" -> <<"r", "e", "s", "u", "l", "t", "s">>
      [] key = "order" -> <<"o", "r", "d", "e", "r">>
      [] key = "finishers" -> <<"f", "i", "n", "i", "s", "h", "e", "r", "s">>
      [] key = "position" -> <<"p", "o", "s", "i", "t", "i", "o", "n">>
      [] key = "pos" -> <<"p", "o", "s">>
      [] key = "rank" -> <<"r", "a", "n", "k">>
      [] key = "notes" -> <<"n", "o", "t", "e", "s">>

\* repr of one character inside a str repr quoted with q
ReprChar(c, q) ==
    CASE c = "\n" -> <<"\\", "n">>
      [] c = "\t" -> <<"\\", "t">>
      [] c = "\r" -> <<"\\", "r">>
      [] c = "\\" -> <<"\\", "\\">>
      [] c = q    -> <<"\\", c>>
      [] OTHER    -> <<c>>

Chars(s) == {s[i] : i \in 1..Len(s)}

\* repr of a str: single-quoted, unless it holds a ' and no "
StrRepr(s) ==
    LET q == IF "'" \in Chars(s) /\ "\"" \notin Chars(s) THEN "\"" ELSE "'"
    IN  <<q>> \o Join([i \in 1..Len(s) |-> ReprChar(s[i], q)], <<>>) \o <<q>>

\* repr(v), used by str() of a list or a dict
RECURSIVE repr(_)
repr(v) ==
    CASE v.t = "none"  -> <<"N", "o", "n", "e">>
      [] v.t = "bool"  -> IF v.v THEN <<"T", "r", "u", "e">> ELSE <<"F", "a", "l", "s", "e">>
      [] v.t = "int"   -> Sign(v.v) \o Digits(Abs(v.v))
      [] v.t = "float" -> FloatRepr(v.v)
      [] v.t = "str"   -> StrRepr(v.v)
      [] v.t = "list"  ->
            <<"[">> \o Join([i \in 1..Len(v.v) |-> repr(v.v[i])], <<",", " ">>) \o <<"]">>
      [] v.t = "dict"  ->
            <<"{">> \o
            Join([i \in 1..Len(v.v) |->
                    StrRepr(KeyChars(v.v[i][1])) \o <<":", " ">> \o repr(v.v[i][2])],
                 <<",", " ">>) \o
            <<"}">>

\* str(v), which is also what an f-string field {v} produces
str(v) == IF v.t = "str" THEN v.v ELSE repr(v)

(***************************************************************************)
(* send_telegram_post.py                                                   *)
(***************************************************************************)
escape_html(text) ==
    Replace(Replace(Replace(text, "&", <<"&", "a", "m", "p", ";">>),
                    "<", <<"&", "l", "t", ";">>),
            ">", <<"&", "g", "t", ";">>)

\* faulty variants of CutTooLong: the marker appended after CAPTION_MAX_CHARS kept
\* characters; the kept characters not stripped of trailing whitespace
CutWithoutReserve(text) == RStrip(Prefix(text, CAPTION_MAX_CHARS)) \o Ellipsis

CutWithoutRStrip(text) == Prefix(text, CAPTION_MAX_CHARS - 4) \o Ellipsis

\* caption[:CAPTION_MAX_CHARS - 4].rstrip() + " ..."
CutTooLong(text) == RStrip(Prefix(text, CAPTION_MAX_CHARS - 4)) \o Ellipsis

(***************************************************************************)
(* send_telegram_race_results.py: format_money                             *)
(***************************************************************************)
IsDigit(c) == c \in {"0", "1", "2", "3", "4", "5", "6", "7", "8", "9"}

DigitVal(c) == CHOOSE d \in 0..9 : Digit(d) = c

\* value of a non-empty digit string
RECURSIVE NatOf(_)
NatOf(ds) ==
    IF Len(ds) = 0 THEN 0 ELSE 10 * NatOf(SubSeq(ds, 1, Len(ds) - 1)) + DigitVal(ds[Len(ds)])

AllDigits(ds) == \A i \in 1..Len(ds) : IsDigit(ds[i])

\* float(s) for a str s: [ok |-> FALSE] is ValueError, else the value in
\* hundredths.  Covers [ws] [sign] digits [. digits] [ws] with at most two
\* fraction digits, the only numeric strings among the model's inputs.
ParseFloat(s) ==
    LET t    == Strip(s)
        sgn  == Len(t) > 0 /\ t[1] \in {"-", "+"}
        body == IF sgn THEN Tail(t) ELSE t
        dots == {i \in 1..Len(body) : body[i] = "."}
        d    == IF dots = {} THEN Len(body) + 1 ELSE CHOOSE i \in dots : TRUE
        ip   == SubSeq(body, 1, d - 1)
        fp   == SubSeq(body, d + 1, Len(body))
        mag  == 100 * NatOf(ip) +
                (IF Len(fp) = 0 THEN 0
                 ELSE IF Len(fp) = 1 THEN 10 * NatOf(fp) ELSE NatOf(fp))
    IN  IF /\ Cardinality(dots) <= 1
           /\ AllDigits(ip) /\ AllDigits(fp)
           /\ Len(ip) + Len(fp) > 0
           /\ Len(fp) <= 2
        THEN [ok |-> TRUE, h |-> IF sgn /\ t[1] = "-" THEN -mag ELSE mag]
        ELSE [ok |-> FALSE, h |-> 0]

\* float(value): [ok |-> FALSE] is TypeError or ValueError
float(value) ==
    CASE value.t = "int"   -> [ok |-> TRUE, h |-> 100 * value.v]
      [] value.t = "float" -> [ok |-> TRUE, h |-> value.v]
      [] value.t = "bool"  -> [ok |-> TRUE, h |-> IF value.v THEN 100 ELSE 0]
      [] value.t = "str"   -> ParseFloat(value.v)
      [] OTHER             -> [ok |-> FALSE, h |-> 0]

\* digits of n in groups of three separated by commas
RECURSIVE Commas(_)
Commas(n) ==
    IF n < 1000 THEN Digits(n)
    ELSE Commas(n \div 1000) \o <<",">> \o
         <<Digit((n % 1000) \div 100), Digit((n % 100) \div 10), Digit(n % 10)>>

\* f"${number:,.2f}" for a number held in hundredths
MoneyFormat(h) ==
    <<"$">> \o Sign(h) \o Commas(Abs(h) \div 100) \o <<".">> \o
    <<Digit((Abs(h) % 100) \div 10), Digit(Abs(h) % 10)>>

\* Optional[str]: PyNone, or the formatted amount as a PyStr
format_money(value) ==
    LET number == float(value)
    IN  IF number.ok THEN PyStr(MoneyFormat(number.h)) ELSE PyNone

(***************************************************************************)
(* send_telegram_race_results.py: build_caption_from_json, by block        *)
(***************************************************************************)
\* [x] if cond else []
Maybe(cond, x) == IF cond THEN <<x>> ELSE <<>>

TitleLines(data) ==
    LET race_name == Or(Or(get(data, "race_name"), get(data, "name")), get(data, "title"))
    IN  Maybe(Truthy(race_name), str(race_name))

MetaLines(data) ==
    LET date_value == Or(Or(get(data, "date"), get(data, "datetime")), get(data, "timestamp"))
        distance   == get(data, "distance")
        surface    == get(data, "surface")
        track      == Or(get(data, "track"), get(data, "venue"))
        dist_surf  == Maybe(Truthy(distance), str(distance)) \o
                      Maybe(Truthy(surface), str(surface))
        meta_parts == Maybe(Truthy(date_value), <<"D", "a", "t", "e", ":", " ">> \o str(date_value)) \o
                      Maybe(Truthy(track), <<"T", "r", "a", "c", "k", ":", " ">> \o str(track)) \o
                      Maybe(Len(dist_surf) > 0,
                            <<"D", "i", "s", "t", "a", "n", "c", "e", "/", "S", "u", "r", "f", "a", "c", "e", ":", " ">> \o Join(dist_surf, <<" ">>))
    IN  Maybe(Len(meta_parts) > 0, Join(meta_parts, <<" ", "|", " ">>))

\* winner = data.get("winner") or {}
Winner(data) == Or(get(data, "winner"), PyDict(<<>>))

\* winner.get(key) if isinstance(winner, dict) else None
WinnerGet(data, key) ==
    IF isinstance_dict(Winner(data)) THEN get(Winner(data), key) ELSE PyNone

WinnerLines(data) ==
    LET winner_name   == WinnerGet(data, "name")
        winner_number == Or(Or(WinnerGet(data, "number"), WinnerGet(data, "no")),
                            WinnerGet(data, "post"))
        winner_odds   == WinnerGet(data, "odds")
        winner_time   == Or(WinnerGet(data, "time"), WinnerGet(data, "final_time"))
        overall_time  == Or(get(data, "time"), get(data, "final_time"))
        odds          == get(data, "odds")
        time_to_show  == Or(winner_time, overall_time)
        odds_to_show  == Or(winner_odds, odds)
        head ==
            IF ~IsNone(winner_number) /\ Truthy(winner_name)
            THEN <<<<"W", "i", "n", "n", "e", "r", ":", " ", "#">> \o str(winner_number) \o <<" ">> \o str(winner_name)>>
            ELSE IF Truthy(winner_name)
            THEN <<<<"W", "i", "n", "n", "e", "r", ":", " ">> \o str(winner_name)>>
            ELSE IF ~IsNone(winner_number)
            THEN <<<<"W", "i", "n", "n", "e", "r", ":", " ", "#">> \o str(winner_number)>>
            ELSE <<>>
        winner_bits ==
            head \o
            Maybe(Truthy(time_to_show), <<"T", "i", "m", "e", ":", " ">> \o str(time_to_show)) \o
            Maybe(Truthy(odds_to_show), <<"O", "d", "d", "s", ":", " ">> \o str(odds_to_show))
    IN  IF \/ Truthy(winner_name) \/ Truthy(winner_number)
           \/ Truthy(time_to_show) \/ Truthy(odds_to_show)
        THEN Maybe(Len(winner_bits) > 0, Join(winner_bits, <<" ", " ">>))
        ELSE <<>>

PersonnelLines(data) ==
    LET jockey  == Or(WinnerGet(data, "jockey"), get(data, "jockey"))
        trainer == Or(WinnerGet(data, "trainer"), get(data, "trainer"))
        owner   == Or(WinnerGet(data, "owner"), get(data, "owner"))
        details_bits ==
            Maybe(Truthy(jockey), <<"J", "o", "c", "k", "e", "y", ":", " ">> \o str(jockey)) \o
            Maybe(Truthy(trainer), <<"T", "r", "a", "i", "n", "e", "r", ":", " ">> \o str(trainer)) \o
            Maybe(Truthy(owner), <<"O", "w", "n", "e", "r", ":", " ">> \o str(owner))
    IN  Maybe(Len(details_bits) > 0, Join(details_bits, <<" ", " ">>))

PayoutLines(data) ==
    LET payouts == Or(get(data, "payouts"), PyDict(<<>>))
    IN  IF isinstance_dict(payouts) /\ Truthy(payouts)
        THEN LET win_str   == format_money(get(payouts, "win"))
                 place_str == format_money(get(payouts, "place"))
                 show_str  == format_money(get(payouts, "show"))
                 payout_bits ==
                     Maybe(Truthy(win_str), <<"W", " ">> \o str(win_str)) \o
                     Maybe(Truthy(place_str), <<"P", " ">> \o str(place_str)) \o
                     Maybe(Truthy(show_str), <<"S", " ">> \o str(show_str))
             IN  Maybe(Len(payout_bits) > 0,
                       <<"P", "a", "y", "o", "u", "t", "s", ":", " ">> \o Join(payout_bits, <<",", " ">>))
        ELSE <<>>

\* the body of the for loop over results: the line of one item, if any
ResultItemLines(item) ==
    IF ~isinstance_dict(item)
    THEN <<>>   \* item.get raises AttributeError: continue
    ELSE LET pos    == Or(Or(get(item, "position"), get(item, "pos")), get(item, "rank"))
             num    == Or(Or(get(item, "number"), get(item, "no")), get(item, "post"))
             name   == get(item, "name")
             i_odds == get(item, "odds")
             parts  ==
                 Maybe(~IsNone(pos), str(pos) \o <<")">>) \o
                 Maybe(~IsNone(num), <<"#">> \o str(num)) \o
                 Maybe(Truthy(name), str(name)) \o
                 Maybe(Truthy(i_odds), <<"(">> \o str(i_odds) \o <<")">>)
         IN  Maybe(Len(parts) > 0, Join(parts, <<" ">>))

RECURSIVE ResultItemsLines(_)
ResultItemsLines(items) ==
    IF Len(items) = 0 THEN <<>>
    ELSE ResultItemLines(Head(items)) \o ResultItemsLines(Tail(items))

ResultsLines(data) ==
    LET results == Or(Or(get(data, "results"), get(data, "order")), get(data, "finishers"))
    IN  IF isinstance_list(results) /\ Truthy(results)
        THEN <<<<"R", "e", "s", "u", "l", "t", "s", ":">>>> \o ResultItemsLines(results.v)
        ELSE <<>>

NotesLines(data) ==
    LET notes == get(data, "notes")
    IN  Maybe(Truthy(notes), <<"N", "o", "t", "e", "s", ":", " ">> \o str(notes))

\* the list lines of build_caption_from_json for a dict data
CaptionLines(data) ==
    TitleLines(data) \o MetaLines(data) \o WinnerLines(data) \o
    PersonnelLines(data) \o PayoutLines(data) \o ResultsLines(data) \o NotesLines(data)

\* caption = "\n".join(lines).strip(), before the length check
JoinedCaption(data) == Strip(Join(CaptionLines(data), <<"\n">>))

(***************************************************************************)
(* Inputs                                                                  *)
(***************************************************************************)
CredVars == {"TELEGRAM_API_ID", "TELEGRAM_API_HASH", "TELEGRAM_BOT_TOKEN"}

\* os.environ: "" stands for unset or empty (read_env_var treats both alike);
\* "abc" is a TELEGRAM_API_ID that int() rejects
GoodEnv == [v \in CredVars |-> "12345"]

\* the complete environment, and the environments spoiled in one variable
Envs ==
    {GoodEnv}
    \cup { [GoodEnv EXCEPT ![v] = ""] : v \in CredVars }
    \cup { [GoodEnv EXCEPT !["TELEGRAM_API_ID"] = "abc"] }

\* n characters "a", with character c at position k when 1 <= k <= n
Body(n, k, c) == [i \in 1..n |-> IF i = k THEN c ELSE "a"]

TextLens ==
    {0, 1} \cup ((CAPTION_MAX_CHARS - Slack) .. (CAPTION_MAX_CHARS + Slack))

\* free texts: short ones, and ones around the caption limit whose character at
\* the cut position CAPTION_MAX_CHARS - 4 is plain, a blank, or needs escaping
Texts ==
    { Rep(p, " ") \o Body(n, CAPTION_MAX_CHARS - 4, c) \o Rep(p, "\n") :
        p \in 0..MaxPad, n \in TextLens, c \in {"a", " ", "&"} }

NoPath == "None"

PostArgs ==
    [ caption     : Texts,
      image       : {NoPath, "image.png"},
      video       : {NoPath, "video.mp4"},
      escape_html : BOOLEAN,
      dry_run     : BOOLEAN ]

(***************************************************************************)
(* Process exit and Telegram client bookkeeping                            *)
(***************************************************************************)
\* sys.exit(code), or the interpreter ending the process
Exit(code) == pc' = "exited" /\ exit_code' = code

\* an uncaught exception leaves asyncio.run and main(): CPython prints the
\* traceback and ends the process with status 1
UncaughtException == Exit(1)

NetOp(op, ok) == [op |-> op, ok |-> ok]

(***************************************************************************)
(* send_telegram_post.py: main and async_main                              *)
(***************************************************************************)
\* main(): argument validation, then asyncio.run(async_main(args))
PostMain ==
    /\ script = "post" /\ pc = "main"
    /\ IF args.image = NoPath /\ args.video = NoPath /\ args.caption = <<>>
       THEN Exit(2)
       ELSE pc' = "env" /\ UNCHANGED exit_code
    /\ UNCHANGED <<script, args, env, caption, isfile, net, out, json_data, built, monitor_vars>>

\* the three read_env_var calls and int(api_id)
ReadCredentials ==
    IF env["TELEGRAM_API_ID"] = "" THEN Exit(1)
    ELSE IF env["TELEGRAM_API_ID"] = "abc" THEN UncaughtException
    ELSE IF env["TELEGRAM_API_HASH"] = "" THEN Exit(1)
    ELSE IF env["TELEGRAM_BOT_TOKEN"] = "" THEN Exit(1)
    ELSE pc' = "media" /\ UNCHANGED exit_code

PostReadEnv ==
    /\ script = "post" /\ pc = "env"
    /\ ReadCredentials
    /\ UNCHANGED <<script, args, env, caption, isfile, net, out, json_data, built, monitor_vars>>

\* media_path: args.image if given, else args.video if given, else None
PostMediaPath ==
    IF args.image # NoPath THEN args.image
    ELSE IF args.video # NoPath THEN args.video
    ELSE NoPath

PostCheckMedia ==
    /\ script = "post" /\ pc = "media"
    /\ IF PostMediaPath = NoPath
       THEN /\ pc' = "caption"
            /\ UNCHANGED <<exit_code, isfile>>
       ELSE \E f \in {"yes", "no"} :
              /\ isfile' = f
              /\ IF f = "no" THEN Exit(3)
                 ELSE pc' = "caption" /\ UNCHANGED exit_code
    /\ UNCHANGED <<script, args, env, caption, net, out, json_data, built, monitor_vars>>

\* caption = args.caption.strip() if args.caption else ""; optional escaping
PostPrepareCaption ==
    /\ script = "post" /\ pc = "caption"
    /\ caption' = IF args.escape_html THEN escape_html(Strip(args.caption))
                  ELSE Strip(args.caption)
    /\ pc' = "bound"
    /\ UNCHANGED <<script, args, exit_code, env, isfile, net, out, json_data, built, monitor_vars>>

PostBoundCaption ==
    /\ script = "post" /\ pc = "bound"
    /\ caption' = IF Len(caption) > CAPTION_MAX_CHARS THEN CutTooLong(caption)
                  ELSE caption
    /\ pc' = "dry"
    /\ UNCHANGED <<script, args, exit_code, env, isfile, net, out, json_data, built, monitor_vars>>

PostDryRun ==
    /\ script = "post" /\ pc = "dry"
    /\ IF args.dry_run
       THEN out' = Append(out, caption) /\ Exit(0)
       ELSE pc' = "start" /\ UNCHANGED <<out, exit_code>>
    /\ UNCHANGED <<script, args, env, caption, isfile, net, json_data, built, monitor_vars>>

\* client = TelegramClient(...); await client.start(bot_token=bot_token)
PostStart ==
    /\ script = "post" /\ pc = "start"
    /\ \E ok \in BOOLEAN :
         /\ net' = Append(net, NetOp("start", ok))
         /\ IF ok THEN pc' = "resolve" /\ UNCHANGED exit_code
            ELSE UncaughtException
    /\ UNCHANGED <<script, args, env, caption, isfile, out, json_data, built, monitor_vars>>

\* faulty variant of PostGetEntity: a failed resolution is tried a second time
PostGetEntityRetries ==
    /\ script = "post" /\ pc = "resolve"
    /\ \E ok \in BOOLEAN :
         IF ok \/ \A k \in 1..Len(net) : net[k].op # "get_entity"
         THEN /\ net' = Append(net, NetOp("get_entity", ok))
              /\ pc' = (IF ok THEN "send" ELSE "resolve") /\ UNCHANGED exit_code
         ELSE /\ net' = net \o <<NetOp("get_entity", FALSE), NetOp("disconnect", TRUE)>>
              /\ Exit(4)
    /\ UNCHANGED <<script, args, env, caption, isfile, out, json_data, built, monitor_vars>>

\* entity = await client.get_entity(target), with its except branch
PostGetEntity ==
    /\ script = "post" /\ pc = "resolve"
    /\ \E ok \in BOOLEAN :
         IF ok
         THEN /\ net' = Append(net, NetOp("get_entity", TRUE))
              /\ pc' = "send" /\ UNCHANGED exit_code
         ELSE /\ net' = net \o <<NetOp("get_entity", FALSE), NetOp("disconnect", TRUE)>>
              /\ Exit(4)
    /\ UNCHANGED <<script, args, env, caption, isfile, out, json_data, built, monitor_vars>>

\* client.send_file(...) with media, client.send_message(...) without
PostSendOp == IF PostMediaPath # NoPath THEN "send_file" ELSE "send_message"

\* faulty variant of PostSend: a failed send ends the run without disconnecting
PostSendLeavesConnected ==
    /\ script = "post" /\ pc = "send"
    /\ out' = Append(out, caption)
    /\ \E ok \in BOOLEAN :
         IF ok
         THEN /\ net' = Append(net, NetOp(PostSendOp, TRUE))
              /\ pc' = "disconnect" /\ UNCHANGED exit_code
         ELSE /\ net' = Append(net, NetOp(PostSendOp, FALSE))
              /\ Exit(5)
    /\ UNCHANGED <<script, args, env, caption, isfile, json_data, built, monitor_vars>>

PostSend ==
    /\ script = "post" /\ pc = "send"
    /\ out' = Append(out, caption)
    /\ \E ok \in BOOLEAN :
         IF ok
         THEN /\ net' = Append(net, NetOp(PostSendOp, TRUE))
              /\ pc' = "disconnect" /\ UNCHANGED exit_code
         ELSE /\ net' = net \o <<NetOp(PostSendOp, FALSE), NetOp("disconnect", TRUE)>>
              /\ Exit(5)
    /\ UNCHANGED <<script, args, env, caption, isfile, json_data, built, monitor_vars>>

\* the final await client.disconnect(); async_main returns, the process ends 0
PostDisconnect ==
    /\ script = "post" /\ pc = "disconnect"
    /\ net' = Append(net, NetOp("disconnect", TRUE))
    /\ Exit(0)
    /\ UNCHANGED <<script, args, env, caption, isfile, out, json_data, built, monitor_vars>>

(***************************************************************************)
(* send_telegram_race_results.py: inputs                                   *)
(***************************************************************************)
\* args.caption = <<>> stands for both None (option absent) and "": the code
\* only tests its truth value
RaceArgs ==
    [ caption   : Texts,
      json_path : {NoPath, "race.json"},
      video     : {"/workspace/tgmsg.mp4"},
      dry_run   : BOOLEAN ]

\* the record of the usage example
ExampleDoc ==
    PyDict(<< <<"race_name", PyStr(<<"R", "a", "c", "e", " ", "7">>)>>,
              <<"winner", PyDict(<< <<"name", PyStr(<<"T", "h", "u", "n", "d", "e", "r", "b", "o", "l", "t">>)>>,
                                    <<"number", PyInt(5)>>,
                                    <<"odds", PyStr(<<"3", ".", "5", "-", "1">>)>>,
                                    <<"time", PyStr(<<"1", ":", "0", "9", ".", "8", "5">>)>> >>)>>,
              <<"payouts", PyDict(<< <<"win", PyFloat(1240)>>,
                                     <<"place", PyInt(5)>>,
                                     <<"show", PyNone>> >>)>>,
              <<"results", PyList(<< PyDict(<< <<"position", PyInt(1)>>,
                                               <<"number", PyInt(5)>>,
                                               <<"name", PyStr(<<"T", "h", "u", "n", "d", "e", "r", "b", "o", "l", "t">>)>>,
                                               <<"odds", PyStr(<<"3", ".", "5", "-", "1">>)>> >>),
                                     PyDict(<< <<"pos", PyInt(2)>>,
                                               <<"name", PyStr(<<"C", "o", "m", "e", "t">>)>> >>) >>)>>,
              <<"notes", PyStr(<<"F", "a", "s", "t", " ", "t", "r", "a", "c", "k">>)>> >>)

\* records whose only line is a title around the caption limit, the character
\* at the cut position being plain or a blank
LongDocs ==
    { PyDict(<< <<"race_name", PyStr(Body(n, CAPTION_MAX_CHARS - 4, c))>> >>) :
        n \in (CAPTION_MAX_CHARS - Slack) .. (CAPTION_MAX_CHARS + Slack),
        c \in {"a", " "} }

\* records with absent, falsy and wrong-typed fields
OddDocs ==
    { PyDict(<<>>),
      PyDict(<< <<"title", PyStr(<<" ", " ">>)>> >>),
      PyDict(<< <<"name", PyInt(7)>>, <<"date", PyStr(<<"2", "0", "2", "4", "-", "0", "5", "-", "0", "1">>)>>,
                <<"venue", PyStr(<<"A", "s", "c", "o", "t">>)>>, <<"distance", PyInt(0)>>,
                <<"surface", PyStr(<<"T", "u", "r", "f">>)>> >>),
      PyDict(<< <<"winner", PyStr(<<"C", "o", "m", "e", "t">>)>>, <<"time", PyStr(<<"1", ":", "1", "0">>)>>,
                <<"jockey", PyStr(<<"J">>)>> >>),
      PyDict(<< <<"winner", PyDict(<< <<"post", PyInt(0)>> >>)>>,
                <<"odds", PyFloat(250)>> >>),
      PyDict(<< <<"payouts", PyDict(<< <<"win", PyStr(<<" ", "1", "2", "3", "4", "5", "6", "7", ".", "5", " ">>)>>,
                                       <<"place", PyStr(<<"n", "/", "a">>)>>,
                                       <<"show", PyBool(TRUE)>> >>)>> >>),
      PyDict(<< <<"payouts", PyList(<<PyInt(1)>>)>>,
                <<"results", PyDict(<< <<"name", PyStr(<<"x">>)>> >>)>> >>),
      PyDict(<< <<"results", PyList(<< PyDict(<< <<"position", PyInt(0)>>,
                                                 <<"name", PyStr(<<"Z", "e", "r", "o">>)>> >>),
                                       PyDict(<< <<"rank", PyInt(0)>> >>),
                                       PyStr(<<"C", "o", "m", "e", "t">>),
                                       PyDict(<< <<"odds", PyStr(<<"2", "-", "1">>)>> >>),
                                       PyDict(<< <<"number", PyInt(0)>> >>) >>)>> >>),
      PyDict(<< <<"track", PyList(<<PyStr(<<"a">>), PyInt(1)>>)>>,
                <<"notes", PyDict(<< <<"name", PyNone>> >>)>> >>) }

\* JSON documents whose top level is not an object
NonDictDocs == { PyList(<<PyInt(1)>>), PyStr(<<"R", "a", "c", "e", " ", "7">>), PyNone }

JsonDocs == {ExampleDoc} \cup LongDocs \cup OddDocs \cup NonDictDocs

(***************************************************************************)
(* send_telegram_race_results.py: resolve_caption, main and async_main     *)
(***************************************************************************)
RaceMain ==
    /\ script = "race" /\ pc = "main"
    /\ pc' = "env"
    /\ UNCHANGED <<script, args, exit_code, env, caption, isfile, net, out, json_data, built, monitor_vars>>

RaceReadEnv ==
    /\ script = "race" /\ pc = "env"
    /\ ReadCredentials
    /\ UNCHANGED <<script, args, env, caption, isfile, net, out, json_data, built, monitor_vars>>

RaceCheckVideo ==
    /\ script = "race" /\ pc = "media"
    /\ \E f \in {"yes", "no"} :
         /\ isfile' = f
         /\ IF f = "no" THEN Exit(3)
            ELSE pc' = "caption" /\ UNCHANGED exit_code
    /\ UNCHANGED <<script, args, env, caption, net, out, json_data, built, monitor_vars>>

\* resolve_caption up to the call of build_caption_from_json
RaceResolveCaption ==
    /\ script = "race" /\ pc = "caption"
    /\ built' = IF args.caption # <<>> THEN <<Strip(args.caption)>> ELSE <<>>
    /\ pc' = IF args.json_path # NoPath THEN "load" ELSE "join"
    /\ UNCHANGED <<script, args, exit_code, env, caption, isfile, net, out, json_data, monitor_vars>>

\* open(json_path) and json.load: a missing or malformed file raises
RaceLoadJson ==
    /\ script = "race" /\ pc = "load"
    /\ \/ /\ UncaughtException
          /\ UNCHANGED json_data
       \/ \E doc \in JsonDocs :
            /\ json_data' = doc
            /\ pc' = "compose" /\ UNCHANGED exit_code
    /\ UNCHANGED <<script, args, env, caption, isfile, net, out, built, monitor_vars>>

\* build_caption_from_json from its first data.get to the joined caption;
\* data.get on a value that is no dict raises AttributeError
RaceCompose ==
    /\ script = "race" /\ pc = "compose"
    /\ IF isinstance_dict(json_data)
       THEN /\ caption' = JoinedCaption(json_data)
            /\ pc' = "json_bound" /\ UNCHANGED exit_code
       ELSE UncaughtException /\ UNCHANGED caption
    /\ UNCHANGED <<script, args, env, isfile, net, out, json_data, built, monitor_vars>>

\* the length check of build_caption_from_json; its result is appended to built
RaceBoundBuilt ==
    /\ script = "race" /\ pc = "json_bound"
    /\ caption' = IF Len(caption) > CAPTION_MAX_CHARS THEN CutTooLong(caption)
                  ELSE caption
    /\ built' = Append(built, caption')
    /\ pc' = "join"
    /\ UNCHANGED <<script, args, exit_code, env, isfile, net, out, json_data, monitor_vars>>

\* [b for b in built if b]
RECURSIVE NonEmpty(_)
NonEmpty(parts) ==
    IF Len(parts) = 0 THEN <<>>
    ELSE Maybe(Len(Head(parts)) > 0, Head(parts)) \o NonEmpty(Tail(parts))

\* final = "\n\n".join(...).strip(), and the check that it is not empty
RaceJoin ==
    /\ script = "race" /\ pc = "join"
    /\ LET final == Strip(Join(NonEmpty(built), <<"\n", "\n">>))
       IN  IF final = <<>>
           THEN Exit(2) /\ UNCHANGED caption
           ELSE caption' = final /\ pc' = "final_bound" /\ UNCHANGED exit_code
    /\ UNCHANGED <<script, args, env, isfile, net, out, json_data, built, monitor_vars>>

RaceBoundFinal ==
    /\ script = "race" /\ pc = "final_bound"
    /\ caption' = IF Len(caption) > CAPTION_MAX_CHARS THEN CutTooLong(caption)
                  ELSE caption
    /\ pc' = "dry"
    /\ UNCHANGED <<script, args, exit_code, env, isfile, net, out, json_data, built, monitor_vars>>

RaceDryRun ==
    /\ script = "race" /\ pc = "dry"
    /\ IF args.dry_run
       THEN out' = Append(out, caption) /\ Exit(0)
       ELSE pc' = "start" /\ UNCHANGED <<out, exit_code>>
    /\ UNCHANGED <<script, args, env, caption, isfile, net, json_data, built, monitor_vars>>

\* client = TelegramClient(MemorySession(), ...); await client.start(...)
RaceStart ==
    /\ script = "race" /\ pc = "start"
    /\ \E ok \in BOOLEAN :
         /\ net' = Append(net, NetOp("start", ok))
         /\ IF ok THEN pc' = "resolve" /\ UNCHANGED exit_code
            ELSE UncaughtException
    /\ UNCHANGED <<script, args, env, caption, isfile, out, json_data, built, monitor_vars>>

RaceGetEntity ==
    /\ script = "race" /\ pc = "resolve"
    /\ \E ok \in BOOLEAN :
         IF ok
         THEN /\ net' = Append(net, NetOp("get_entity", TRUE))
              /\ pc' = "send" /\ UNCHANGED exit_code
         ELSE /\ net' = net \o <<NetOp("get_entity", FALSE), NetOp("disconnect", TRUE)>>
              /\ Exit(4)
    /\ UNCHANGED <<script, args, env, caption, isfile, out, json_data, built, monitor_vars>>

RaceSend ==
    /\ script = "race" /\ pc = "send"
    /\ out' = Append(out, caption)
    /\ \E ok \in BOOLEAN :
         IF ok
         THEN /\ net' = Append(net, NetOp("send_file", TRUE))
              /\ pc' = "disconnect" /\ UNCHANGED exit_code
         ELSE /\ net' = net \o <<NetOp("send_file", FALSE), NetOp("disconnect", TRUE)>>
              /\ Exit(5)
    /\ UNCHANGED <<script, args, env, caption, isfile, json_data, built, monitor_vars>>

RaceDisconnect ==
    /\ script = "race" /\ pc = "disconnect"
    /\ net' = Append(net, NetOp("disconnect", TRUE))
    /\ Exit(0)
    /\ UNCHANGED <<script, args, env, caption, isfile, out, json_data, built, monitor_vars>>

(***************************************************************************)
(* monitor_news_group.py: the extraction done by handle_new_message        *)
(***************************************************************************)
HEADLINE_MAX_CHARS == 200

\* text.strip().split('\n')[0]
FirstLine(text) ==
    LET t   == Strip(text)
        nls == {i \in 1..Len(t) : t[i] = "\n"}
    IN  IF nls = {} THEN t
        ELSE SubSeq(t, 1, (CHOOSE i \in nls : \A j \in nls : i <= j) - 1)

\* faulty variant of Headline: the first line of the text as it came, not trimmed
HeadlineOfRawText(text) ==
    LET nls == {i \in 1..Len(text) : text[i] = "\n"}
    IN  Prefix(IF nls = {} THEN text
               ELSE SubSeq(text, 1, (CHOOSE i \in nls : \A j \in nls : i <= j) - 1),
               HEADLINE_MAX_CHARS)

\* headline = lines[0][:200]
Headline(text) == Prefix(FirstLine(text), HEADLINE_MAX_CHARS)

\* an entity of the message: has_url says whether the object has a url
\* attribute (MessageEntityTextUrl does, the other entity types do not)
Entity(has_url, url) == [has_url |-> has_url, url |-> url]

\* the for loop over message.entities: the url of the first entity that has
\* one, <<>> (None) when there is none
UrlFromEntities(entities) ==
    LET with == {i \in 1..Len(entities) : entities[i].has_url}
    IN  IF with = {} THEN <<>>
        ELSE entities[CHOOSE i \in with : \A j \in with : i <= j].url

\* pat in text
Contains(text, pat) ==
    \E i \in 1..(Len(text) - Len(pat) + 1) : SubSeq(text, i, i + Len(pat) - 1) = pat

\* the word of text.split() that starts at index i
RECURSIVE WordEnd(_, _)
WordEnd(text, i) ==
    IF i = Len(text) \/ text[i + 1] \in Whitespace THEN i ELSE WordEnd(text, i + 1)

StartsWithAt(text, i, pat) ==
    /\ i + Len(pat) - 1 <= Len(text)
    /\ SubSeq(text, i, i + Len(pat) - 1) = pat

\* the scan of text.split() for the first word that starts with http:// or
\* https://, <<>> (None) when there is none
UrlFromText(text) ==
    LET starts == {i \in 1..Len(text) :
                     /\ text[i] \notin Whitespace
                     /\ (i = 1 \/ text[i - 1] \in Whitespace)
                     /\ \/ StartsWithAt(text, i, <<"h", "t", "t", "p", ":", "/", "/">>)
                        \/ StartsWithAt(text, i, <<"h", "t", "t", "p", "s", ":", "/", "/">>)}
    IN  IF starts = {} THEN <<>>
        ELSE LET i == CHOOSE k \in starts : \A j \in starts : k <= j
             IN  SubSeq(text, i, WordEnd(text, i))

\* faulty variant of ExtractUrl: a link in the text wins over the entities
ExtractUrlTextFirst(message) ==
    LET url == UrlFromText(message.text)
    IN  IF url = <<>> THEN UrlFromEntities(message.entities) ELSE url

\* the url handed to send_to_server
ExtractUrl(message) ==
    LET url == UrlFromEntities(message.entities)
    IN  IF url = <<>> /\ (Contains(message.text, <<"h", "t", "t", "p", ":", "/", "/">>) \/
                          Contains(message.text, <<"h", "t", "t", "p", "s", ":", "/", "/">>))
        THEN UrlFromText(message.text)
        ELSE url

(***************************************************************************)
(* monitor_news_group.py: send_to_server                                   *)
(***************************************************************************)
HTTP_OK == 200

\* what the awaited session.post produces
Response(status) == [kind |-> "response", status |-> status]

TransportError == [kind |-> "error", status |-> 0]

\* faulty variant of send_to_server: any response counts as delivered
send_to_server_any_response(reply) == reply.kind = "response"

\* the value send_to_server returns for what the POST produced; an exception
\* raised anywhere in its try block is caught and turned into False
send_to_server(reply) ==
    IF reply.kind = "response" THEN reply.status = HTTP_OK ELSE FALSE

(***************************************************************************)
(* monitor_news_group.py: inputs                                           *)
(***************************************************************************)
MonitorVars ==
    {"TELEGRAM_API_ID", "TELEGRAM_API_HASH", "TELEGRAM_BOT_TOKEN", "ADMIN_TOKEN"}

GoodMonitorEnv == [v \in MonitorVars |-> "12345"]

\* the complete environment (bot login), and the ones with a variable unset;
\* without TELEGRAM_BOT_TOKEN the monitor uses the stored user session
MonitorEnvs ==
    {GoodMonitorEnv} \cup { [GoodMonitorEnv EXCEPT ![v] = ""] : v \in MonitorVars }

Message(text, entities) == [ok |-> TRUE, text |-> text, entities |-> entities]

\* an event whose message cannot be read: event.message raises in the handler
BrokenEvent == [ok |-> FALSE, text |-> <<>>, entities |-> <<>>]

EntityUrl == <<"h", "t", "t", "p", "s", ":", "/", "/", "e", ".", "i", "o", "/", "1">>

\* the events the monitored channel delivers in the full program model
MonitorEvents ==
    { Message(<<" ", " ", "\n", " ">>, <<>>),
      Message(<<"R", "a", "t", "e", "s", " ", "c", "u", "t", "\n", "s", "e", "e", " ", "h", "t", "t", "p", "s", ":", "/", "/", "t", ".", "c", "o", "/", "x", " ", "n", "o", "w">>, <<Entity(FALSE, <<>>)>>),
      Message(<<"F", "e", "d", " ", "h", "o", "l", "d", "s">>, <<Entity(TRUE, EntityUrl)>>),
      BrokenEvent }

StatusCodes == {200, 403}

\* number of events the channel delivers in a run
MaxEvents == 2

(***************************************************************************)
(* monitor_news_group.py: main, the handler and the listening loop         *)
(***************************************************************************)
\* the credential checks at the top of main()
MonitorMain ==
    /\ script = "monitor" /\ pc = "main"
    /\ IF env["TELEGRAM_API_ID"] = "" \/ env["TELEGRAM_API_HASH"] = "" THEN Exit(1)
       ELSE IF env["ADMIN_TOKEN"] = "" THEN Exit(1)
       ELSE pc' = "connect" /\ UNCHANGED exit_code
    /\ UNCHANGED <<script, args, env, caption, isfile, net, out, json_data, built,
                   registered, events, handlers, sink>>

\* bot login: client.start(bot_token=BOT_TOKEN); an exception it raises leaves
\* main() and is caught at the bottom of the file, which exits 1.  On success
\* the handler is registered and run_until_disconnected() is entered.
MonitorStartBot ==
    /\ script = "monitor" /\ pc = "connect"
    /\ env["TELEGRAM_BOT_TOKEN"] # ""
    /\ \E ok \in BOOLEAN :
         /\ net' = Append(net, NetOp("start", ok))
         /\ IF ok THEN pc' = "listening" /\ registered' = TRUE /\ UNCHANGED exit_code
            ELSE Exit(1) /\ UNCHANGED registered
    /\ UNCHANGED <<script, args, env, caption, isfile, out, json_data, built,
                   events, handlers, sink>>

\* user session: client.connect()
MonitorConnectUser ==
    /\ script = "monitor" /\ pc = "connect"
    /\ env["TELEGRAM_BOT_TOKEN"] = ""
    /\ \E ok \in BOOLEAN :
         /\ net' = Append(net, NetOp("connect", ok))
         /\ IF ok THEN pc' = "authorize" /\ UNCHANGED exit_code
            ELSE Exit(1)
    /\ UNCHANGED <<script, args, env, caption, isfile, out, json_data, built,
                   registered, events, handlers, sink>>

\* client.is_user_authorized(): unauthorized disconnects and exits 1, else
\* the handler is registered and run_until_disconnected() is entered
MonitorCheckAuthorized ==
    /\ script = "monitor" /\ pc = "authorize"
    /\ \E authorized \in BOOLEAN :
         IF authorized
         THEN /\ net' = Append(net, NetOp("is_user_authorized", TRUE))
              /\ pc' = "listening" /\ registered' = TRUE /\ UNCHANGED exit_code
         ELSE /\ net' = net \o <<NetOp("is_user_authorized", FALSE),
                                 NetOp("disconnect", TRUE)>>
              /\ Exit(1) /\ UNCHANGED registered
    /\ UNCHANGED <<script, args, env, caption, isfile, out, json_data, built,
                   events, handlers, sink>>

\* a handler run that has not started; after_failure records (for the
\* properties only) that an earlier event's handling had failed on arrival
Queued == [state |-> "queued", outcome |-> "none", headline |-> <<>>, url |-> <<>>,
           reply |-> TransportError, returned |-> FALSE, after_failure |-> FALSE]

\* the handling of an event failed: its extraction raised, or its delivery
\* ended in anything but a 200 response
Failed(h) ==
    h.state = "done" /\ (h.outcome = "error" \/ (h.outcome = "returned" /\ ~h.returned))

\* the channel posts a message: the client, built without sequential_updates,
\* creates a task of its own that will run handle_new_message for it
Deliver ==
    /\ script = "monitor" /\ pc = "listening" /\ registered
    /\ Len(events) < MaxEvents
    /\ \E ev \in MonitorEvents :
         /\ events' = Append(events, ev)
         /\ handlers' = Append(handlers,
                [Queued EXCEPT !.after_failure =
                    \E j \in 1..Len(handlers) : Failed(handlers[j])])
    /\ UNCHANGED <<script, args, pc, exit_code, env, caption, isfile, net, out,
                   json_data, built, registered, sink>>

\* faulty variant of HandlerRun: the emptiness test made on the text as it came
HandlerRunNoStrip(h, ev) ==
    IF ~ev.ok
    THEN [h EXCEPT !.state = "done", !.outcome = "error"]
    ELSE IF ev.text = <<>>
    THEN [h EXCEPT !.state = "done", !.outcome = "skipped"]
    ELSE [h EXCEPT !.state = "awaiting",
                   !.headline = Headline(ev.text),
                   !.url = ExtractUrl(ev)]

\* handle_new_message for event i, from its start to its first suspension: the
\* await of session.post inside send_to_server, or its end when it skips or
\* when the extraction raises (caught by the handler's except)
HandlerRun(h, ev) ==
    IF ~ev.ok
    THEN [h EXCEPT !.state = "done", !.outcome = "error"]
    ELSE IF Strip(ev.text) = <<>>
    THEN [h EXCEPT !.state = "done", !.outcome = "skipped"]
    ELSE [h EXCEPT !.state = "awaiting",
                   !.headline = Headline(ev.text),
                   !.url = ExtractUrl(ev)]

handle_new_message(i) ==
    /\ script = "monitor" /\ pc = "listening"
    /\ handlers[i].state = "queued"
    /\ handlers' = [handlers EXCEPT ![i] = HandlerRun(handlers[i], events[i])]
    /\ UNCHANGED <<script, args, pc, exit_code, env, caption, isfile, net, out,
                   json_data, built, registered, events, sink>>

\* faulty variant of Request: headline and url kept in one place shared by all
\* handler runs, so a request carries those of the run that started last
RequestFromShared(i) ==
    LET started == {j \in 1..Len(handlers) : handlers[j].state = "awaiting"}
        last    == CHOOSE j \in started : \A m \in started : m <= j
    IN  [ev |-> i, headline |-> handlers[last].headline, url |-> handlers[last].url]

\* the request of handler i as the sink sees it
Request(i) == [ev |-> i, headline |-> handlers[i].headline, url |-> handlers[i].url]

\* handler i resumes with what its POST produced, send_to_server returns and
\* the handler ends
Resume(i, reply) ==
    handlers' = [handlers EXCEPT ![i] =
                    [@ EXCEPT !.state = "done", !.outcome = "returned",
                              !.reply = reply, !.returned = send_to_server(reply)]]

\* the sink receives the POST of handler i and answers it
SinkRespond(i) ==
    /\ script = "monitor" /\ pc = "listening"
    /\ handlers[i].state = "awaiting"
    /\ sink' = Append(sink, Request(i))
    /\ \E status \in StatusCodes : Resume(i, Response(status))
    /\ UNCHANGED <<script, args, pc, exit_code, env, caption, isfile, net, out,
                   json_data, built, registered, events>>

\* faulty variant of TransportFailure: the exception leaves send_to_server and the
\* handler and ends the process
TransportFailureEndsLoop(i) ==
    /\ script = "monitor" /\ pc = "listening"
    /\ handlers[i].state = "awaiting"
    /\ handlers' = [handlers EXCEPT ![i] =
                       [@ EXCEPT !.state = "done", !.outcome = "error"]]
    /\ Exit(1)
    /\ UNCHANGED <<script, args, env, caption, isfile, net, out, json_data, built,
                   registered, events, sink>>

\* the POST of handler i fails in transport, before or after reaching the sink
TransportFailure(i) ==
    /\ script = "monitor" /\ pc = "listening"
    /\ handlers[i].state = "awaiting"
    /\ \E received \in BOOLEAN :
         sink' = IF received THEN Append(sink, Request(i)) ELSE sink
    /\ Resume(i, TransportError)
    /\ UNCHANGED <<script, args, pc, exit_code, env, caption, isfile, net, out,
                   json_data, built, registered, events>>

\* the client is disconnected: run_until_disconnected() returns (exit 0) or
\* raises the connection error (caught at the bottom of the file, exit 1)
Disconnect ==
    /\ script = "monitor" /\ pc = "listening"
    /\ \E clean \in BOOLEAN :
         /\ net' = Append(net, NetOp("disconnected", clean))
         /\ Exit(IF clean THEN 0 ELSE 1)
    /\ UNCHANGED <<script, args, env, caption, isfile, out, json_data, built,
                   registered, events, handlers, sink>>

(***************************************************************************)
(* The programs together                                                   *)
(***************************************************************************)
NoArgs == [none |-> TRUE]

Init ==
    /\ script \in {"post", "race", "monitor"}
    /\ args \in (CASE script = "post" -> PostArgs
                   [] script = "race" -> RaceArgs
                   [] OTHER           -> {NoArgs})
    /\ env \in (IF script = "monitor" THEN MonitorEnvs ELSE Envs)
    /\ pc = "main"
    /\ exit_code = 0
    /\ caption = <<>>
    /\ isfile = "unchecked"
    /\ net = <<>>
    /\ out = <<>>
    /\ json_data = PyNone
    /\ built = <<>>
    /\ registered = FALSE
    /\ events = <<>>
    /\ handlers = <<>>
    /\ sink = <<>>

Next ==
    \/ PostMain
    \/ PostReadEnv
    \/ PostCheckMedia
    \/ PostPrepareCaption
    \/ PostBoundCaption
    \/ PostDryRun
    \/ PostStart
    \/ PostGetEntity
    \/ PostSend
    \/ PostDisconnect
    \/ RaceMain
    \/ RaceReadEnv
    \/ RaceCheckVideo
    \/ RaceResolveCaption
    \/ RaceLoadJson
    \/ RaceCompose
    \/ RaceBoundBuilt
    \/ RaceJoin
    \/ RaceBoundFinal
    \/ RaceDryRun
    \/ RaceStart
    \/ RaceGetEntity
    \/ RaceSend
    \/ RaceDisconnect
    \/ MonitorMain
    \/ MonitorStartBot
    \/ MonitorConnectUser
    \/ MonitorCheckAuthorized
    \/ Deliver
    \/ \E i \in 1..Len(handlers) : handle_new_message(i)
    \/ \E i \in 1..Len(handlers) : SinkRespond(i)
    \/ \E i \in 1..Len(handlers) : TransportFailure(i)
    \/ Disconnect

Spec == Init /\ [][Next]_vars

(***************************************************************************)
(* The handler on one delivered event, over a wide range of messages       *)
(***************************************************************************)
\* first lines around the headline limit, alone or followed by a second line
HeadlineTexts ==
    { Rep(p, "\n") \o Rep(n, "a") \o rest \o Rep(p, " ") :
        p \in 0..MaxPad,
        n \in {0, 1} \cup ((HEADLINE_MAX_CHARS - Slack) .. (HEADLINE_MAX_CHARS + Slack)),
        rest \in {<<>>, <<"\n", "b", "b">>} }

\* texts with and without words that start with http:// or https://
UrlTexts ==
    { <<"R", "a", "t", "e", "s", " ", "c", "u", "t", "\n", "s", "e", "e", " ", "h", "t", "t", "p", "s", ":", "/", "/", "t", ".", "c", "o", "/", "x", " ", "n", "o", "w">>,
      <<"h", "t", "t", "p", "s", ":", "/", "/", "t", ".", "c", "o", "/", "x", " ", "f", "i", "r", "s", "t", ",", " ", "t", "h", "e", "n", " ", "h", "t", "t", "p", ":", "/", "/", "b", ".", "i", "o">>,
      <<"h", "t", "t", "p", ":", "/", "/", "b", ".", "i", "o", "	", "h", "t", "t", "p", "s", ":", "/", "/", "t", ".", "c", "o", "/", "x">>,
      <<"n", "o", " ", "l", "i", "n", "k", ",", " ", "o", "n", "l", "y", " ", "x", "h", "t", "t", "p", ":", "/", "/", "i", "n", "s", "i", "d", "e", " ", "a", "n", "d", " ", "(", "h", "t", "t", "p", "s", ":", "/", "/", "p", "a", "r", "e", "n", ")">>,
      <<" ", "\n", " ", "h", "t", "t", "p", ":", "/", "/", "b", ".", "i", "o">>,
      <<"h", "t", "t", "p", ":", "/", " ", "n", "o", "t", " ", "q", "u", "i", "t", "e", " ", "h", "t", "t", "p", "s", ":", "/">> }

EntityLists ==
    { <<>>,
      <<Entity(FALSE, <<>>)>>,
      <<Entity(TRUE, EntityUrl)>>,
      <<Entity(FALSE, <<>>), Entity(TRUE, <<"h", "t", "t", "p", ":", "/", "/", "s", "e", "c", "o", "n", "d", ".", "i", "o">>), Entity(TRUE, EntityUrl)>> }

ExtractEvents ==
    { Message(text, entities) : text \in HeadlineTexts \cup UrlTexts, entities \in EntityLists }

\* the monitor, logged in as a bot and listening, with one event delivered
InitExtract ==
    /\ script = "monitor"
    /\ args = NoArgs
    /\ env = GoodMonitorEnv
    /\ pc = "listening"
    /\ exit_code = 0
    /\ caption = <<>>
    /\ isfile = "unchecked"
    /\ net = <<NetOp("start", TRUE)>>
    /\ out = <<>>
    /\ json_data = PyNone
    /\ built = <<>>
    /\ registered = TRUE
    /\ events \in { <<ev>> : ev \in ExtractEvents }
    /\ handlers = <<Queued>>
    /\ sink = <<>>

NextExtract == \E i \in 1..Len(handlers) : handle_new_message(i)

SpecExtract == InitExtract /\ [][NextExtract]_vars

(***************************************************************************)
(* Properties                                                              *)
(***************************************************************************)
Sender == script \in {"post", "race"}

Exited(code) == pc = "exited" /\ exit_code = code

\* the client operations named op performed so far
Ops(op) == {k \in 1..Len(net) : net[k].op = op}

SendOps == Ops("send_file") \cup Ops("send_message")

CredentialsPresent == \A v \in CredVars : env[v] # ""

\* the media file the run refers to, if any, was found by os.path.isfile
MediaFileExists ==
    IF script = "post" /\ PostMediaPath = NoPath THEN TRUE ELSE isfile = "yes"

SourceSupplied ==
    IF script = "post"
    THEN args.caption # <<>> \/ args.image # NoPath \/ args.video # NoPath
    ELSE args.caption # <<>> \/ args.json_path # NoPath

\* C1: in a sender, a network operation happens only with all credentials
\* present, the media file existing, a caption/media/record source supplied
\* and dry-run unset; a run that ends with exit code 1, 2 or 3, or has
\* dry-run set, performs no network operation.
C1_NoNetworkBeforeValidation ==
    Sender =>
        /\ net # <<>> =>
              /\ CredentialsPresent
              /\ MediaFileExists
              /\ SourceSupplied
              /\ ~args.dry_run
        /\ ((pc = "exited" /\ exit_code \in {1, 2, 3}) \/ args.dry_run) => net = <<>>

\* C2: every caption a sender prints in dry-run or passes to the send call has
\* at most CAPTION_MAX_CHARS characters; so has the caption returned by
\* build_caption_from_json and the one returned by resolve_caption.
C2_CaptionWithinLimit ==
    Sender =>
        /\ \A k \in 1..Len(out) : Len(out[k]) <= CAPTION_MAX_CHARS
        /\ pc \in {"dry", "start", "resolve", "send", "disconnect"}
              => Len(caption) <= CAPTION_MAX_CHARS
        /\ (script = "race" /\ pc = "join" /\ args.json_path # NoPath)
              => Len(built[Len(built)]) <= CAPTION_MAX_CHARS

\* a cut caption of exactly the limit was handed to the send call
C2_Witness ==
    /\ Sender
    /\ SendOps # {}
    /\ \E k \in 1..Len(out) :
         Len(out[k]) = CAPTION_MAX_CHARS /\ EndsWith(out[k], Ellipsis)

\* the program is at one of the three length checks
AtLengthCheck == Sender /\ pc \in {"bound", "json_bound", "final_bound"}

\* C3 as claimed: a caption longer than the limit comes out of the length
\* check with exactly CAPTION_MAX_CHARS characters, ending with " ...".
C3_CutIsExactlyLimit ==
    [][ (AtLengthCheck /\ Len(caption) > CAPTION_MAX_CHARS) =>
            /\ Len(caption') = CAPTION_MAX_CHARS
            /\ EndsWith(caption', Ellipsis) ]_vars

\* C3 as amended: a caption longer than the limit comes out of the length
\* check as its first CAPTION_MAX_CHARS - 4 characters, trailing whitespace
\* removed, followed by " ...": at most CAPTION_MAX_CHARS characters, and
\* exactly that many when character CAPTION_MAX_CHARS - 4 is not whitespace.
C3_CutTrimsThenMarks ==
    [][ (AtLengthCheck /\ Len(caption) > CAPTION_MAX_CHARS) =>
            LET kept == Len(caption') - Len(Ellipsis)
            IN  /\ EndsWith(caption', Ellipsis)
                /\ Len(caption') <= CAPTION_MAX_CHARS
                /\ SubSeq(caption', 1, kept) = SubSeq(caption, 1, kept)
                /\ kept > 0 => caption[kept] \notin Whitespace
                /\ \A k \in (kept + 1)..(CAPTION_MAX_CHARS - 4) : caption[k] \in Whitespace
                /\ caption[CAPTION_MAX_CHARS - 4] \notin Whitespace
                      => Len(caption') = CAPTION_MAX_CHARS ]_vars

\* a free text longer than the limit was cut to less than the limit
C3_Witness ==
    /\ script = "post" /\ pc = "dry" /\ ~args.escape_html
    /\ Len(Strip(args.caption)) > CAPTION_MAX_CHARS
    /\ EndsWith(caption, Ellipsis)
    /\ Len(caption) < CAPTION_MAX_CHARS

\* the handler runs that have gone through the extraction and the POST
Forwarded == {i \in 1..Len(handlers) :
                handlers[i].state = "awaiting" \/ handlers[i].outcome = "returned"}

\* C4: the headline of a message with non-empty trimmed text is the first
\* line of the trimmed text cut at HEADLINE_MAX_CHARS: a prefix of the
\* trimmed text without line break, that stops at the end of the line or
\* after HEADLINE_MAX_CHARS characters, whichever comes first.
C4_HeadlineIsFirstLineCut ==
    \A i \in Forwarded :
        LET t == Strip(events[i].text)
            h == handlers[i].headline
        IN  /\ Len(h) <= HEADLINE_MAX_CHARS
            /\ h = SubSeq(t, 1, Len(h))
            /\ \A k \in 1..Len(h) : h[k] # "\n"
            /\ \/ Len(h) = Len(t)
               \/ t[Len(h) + 1] = "\n"
               \/ Len(h) = HEADLINE_MAX_CHARS

\* a first line longer than the limit was cut
C4_Witness ==
    \E i \in Forwarded :
        LET t == Strip(events[i].text)
        IN  /\ Len(t) > HEADLINE_MAX_CHARS
            /\ \A k \in 1..(HEADLINE_MAX_CHARS + 1) : t[k] # "\n"
            /\ Len(handlers[i].headline) = HEADLINE_MAX_CHARS

\* the words of text.split(): maximal runs without whitespace, as <<first, last>>
IsWord(text, a, b) ==
    /\ a <= b
    /\ \A k \in a..b : text[k] \notin Whitespace
    /\ a = 1 \/ text[a - 1] \in Whitespace
    /\ b = Len(text) \/ text[b + 1] \in Whitespace

IsLink(word) ==
    \/ Len(word) >= 7 /\ SubSeq(word, 1, 7) = <<"h", "t", "t", "p", ":", "/", "/">>
    \/ Len(word) >= 8 /\ SubSeq(word, 1, 8) = <<"h", "t", "t", "p", "s", ":", "/", "/">>

\* the positions of the words of text that are links
LinkWords(text) ==
    { w \in {<<a, b>> \in {k \in 1..Len(text) : text[k] = "h"} \X (1..Len(text)) :
               IsWord(text, a, b)} :
        IsLink(SubSeq(text, w[1], w[2])) }

\* C5: when an entity of the message carries a URL, the forwarded URL is that
\* of the first such entity, whatever the text holds; otherwise it is the
\* first word of the text that starts with http:// or https://; otherwise
\* there is none.
C5_EntityUrlBeforeTextUrl ==
    \A i \in Forwarded :
        LET text     == events[i].text
            entities == events[i].entities
            url      == handlers[i].url
            carrying == {k \in 1..Len(entities) : entities[k].has_url}
            links    == LinkWords(text)
        IN  IF carrying # {}
            THEN \E k \in carrying :
                    /\ \A j \in carrying : k <= j
                    /\ url = entities[k].url
            ELSE IF links # {}
            THEN \E w \in links :
                    /\ \A v \in links : w[1] <= v[1]
                    /\ url = SubSeq(text, w[1], w[2])
            ELSE url = <<>>

\* an entity URL was forwarded although the text starts with a link
C5_Witness ==
    \E i \in Forwarded :
        /\ IsLink(events[i].text)
        /\ \E k \in 1..Len(events[i].entities) : events[i].entities[k].has_url
        /\ handlers[i].url = EntityUrl

\* the requests the sink received from the handler of event i
Received(i) == {k \in 1..Len(sink) : sink[k].ev = i}

\* C6: a message whose text is empty after trimming is skipped, without a
\* POST and without an error; a message with non-empty trimmed text leads
\* to the forward call.
C6_EmptySkippedElseForwarded ==
    \A i \in 1..Len(handlers) :
        (events[i].ok /\ handlers[i].state # "queued") =>
            IF Strip(events[i].text) = <<>>
            THEN /\ handlers[i].state = "done"
                 /\ handlers[i].outcome = "skipped"
                 /\ Received(i) = {}
            ELSE i \in Forwarded

\* one event was skipped and another one forwarded
C6_Witness ==
    /\ \E i \in 1..Len(handlers) : handlers[i].outcome = "skipped"
    /\ Forwarded # {}

\* C7: a forwarded event is POSTed at most once; send_to_server returns
\* True exactly when the response status is 200, False for any other status
\* and for a transport failure, and raises nothing (the handler's except
\* branch is reached by unreadable events only); a finished handler run is
\* never resumed.
C7_OnePostSuccessIff200 ==
    \A i \in 1..Len(handlers) :
        /\ Cardinality(Received(i)) <= 1
        /\ Received(i) # {} => i \in Forwarded
        /\ handlers[i].outcome = "returned" =>
              /\ handlers[i].state = "done"
              /\ handlers[i].returned =
                    (handlers[i].reply.kind = "response" /\ handlers[i].reply.status = 200)
        /\ handlers[i].outcome = "error" => ~events[i].ok

\* a 403 response was reported as a failure
C7_Witness ==
    \E i \in 1..Len(handlers) :
        /\ handlers[i].outcome = "returned"
        /\ handlers[i].reply = Response(403)
        /\ ~handlers[i].returned
        /\ Cardinality(Received(i)) = 1

\* C8: the listening loop survives failed events: it ends only by a
\* disconnect, a run that ends without one is a startup failure, and an
\* event that arrived after a failure can be handled like any other.
C8_ListenerSurvivesFailures ==
    script = "monitor" =>
        /\ (pc = "exited" /\ registered) => net[Len(net)].op = "disconnected"
        /\ (pc = "exited" /\ ~registered) => (exit_code = 1 /\ events = <<>>)
        /\ (registered /\ Ops("disconnected") = {}) => pc = "listening"
        /\ \A i \in 1..Len(handlers) :
              (pc = "listening" /\ handlers[i].state = "queued")
                 => ENABLED handle_new_message(i)

\* an event that arrived after a failed one was delivered with a 200 response
C8_Witness ==
    /\ script = "monitor" /\ pc = "listening"
    /\ \E i \in 1..Len(handlers) :
         /\ handlers[i].after_failure
         /\ handlers[i].outcome = "returned"
         /\ handlers[i].returned

\* C9 as claimed: at no time are two handler runs in flight, and the POSTs
\* reach the sink in event-arrival order.
C9_OneHandlerAtATime ==
    /\ Cardinality({i \in 1..Len(handlers) : handlers[i].state = "awaiting"}) <= 1
    /\ \A k \in 1..Len(sink) : \A m \in 1..Len(sink) :
          k < m => sink[k].ev < sink[m].ev

\* C9 as amended: each handler run extracts and POSTs without suspending in
\* between and suspends only while it awaits the sink's response; each event
\* is POSTed at most once, with the headline and URL extracted from that very
\* event.  Handler runs of several events may await their responses at the
\* same time, and their POSTs may reach the sink in any order.
C9_EachEventPostedOnceWithOwnExtraction ==
    \A k \in 1..Len(sink) :
        LET i == sink[k].ev
        IN  /\ i \in Forwarded
            /\ \A m \in 1..Len(sink) : sink[m].ev = i => m = k
            /\ sink[k].headline = Headline(events[i].text)
            /\ sink[k].url = ExtractUrl(events[i])

\* the sink received the POST of a later event before that of an earlier one
C9_Witness ==
    \E k \in 1..Len(sink) : \E m \in 1..Len(sink) :
        k < m /\ sink[k].ev > sink[m].ev

C11_ComposeNeverRaises ==
    [][ (script = "race" /\ pc = "compose") =>
            (pc' = "json_bound" /\ UNCHANGED exit_code) ]_vars

\* the lines of text, as text.split("\n") gives them, as <<first, last>> positions
LineBounds(text) ==
    LET breaks == {0, Len(text) + 1} \cup {i \in 1..Len(text) : text[i] = "\n"}
    IN  {<<a + 1, b - 1>> : <<a, b>> \in
            {p \in breaks \X breaks :
                p[1] < p[2] /\ \A c \in breaks : ~(p[1] < c /\ c < p[2])}}

\* the value an entry gives for a sub-field known under several keys: that of
\* the first key it has a value for, None when it has none
RECURSIVE Field(_, _)
Field(item, keys) ==
    IF Len(keys) = 0 THEN PyNone
    ELSE IF ~IsNone(get(item, Head(keys))) THEN get(item, Head(keys))
    ELSE Field(item, Tail(keys))

Position(item) == Field(item, <<"position", "pos", "rank">>)

Number(item) == Field(item, <<"number", "no", "post">>)

\* the line claimed for an entry: "<position>) #<number> <name> (<odds>)"
\* without the sub-fields the entry does not have
ClaimedLine(item) ==
    Join(Maybe(~IsNone(Position(item)), str(Position(item)) \o <<")">>) \o
         Maybe(~IsNone(Number(item)), <<"#">> \o str(Number(item))) \o
         Maybe(~IsNone(get(item, "name")), str(get(item, "name"))) \o
         Maybe(~IsNone(get(item, "odds")), <<"(">> \o str(get(item, "odds")) \o <<")">>),
         <<" ">>)

\* C12: when the record's finisher sequence is a non-empty list, the composed
\* caption has a "Results:" line and, below it, for every entry that has a
\* position, a number or a name (a position or number of 0 included), the
\* line "<position>) #<number> <name> (<odds>)" of that entry with only its
\* missing sub-fields dropped.
C12_EveryEntryWithPositionNumberOrNameHasItsLine ==
    (script = "race" /\ pc = "json_bound") =>
        LET results == Or(Or(get(json_data, "results"), get(json_data, "order")),
                          get(json_data, "finishers"))
            lines   == LineBounds(caption)
            Line(b) == SubSeq(caption, b[1], b[2])
        IN  (isinstance_list(results) /\ results.v # <<>>) =>
                \E h \in lines :
                    /\ Line(h) = <<"R", "e", "s", "u", "l", "t", "s", ":">>
                    /\ \A k \in 1..Len(results.v) :
                          LET item == results.v[k]
                          IN  (/\ isinstance_dict(item)
                               /\ \/ ~IsNone(Position(item))
                                  \/ ~IsNone(Number(item))
                                  \/ ~IsNone(get(item, "name")))
                              => \E b \in lines : b[1] > h[2] /\ Line(b) = ClaimedLine(item)

\* C13: in a sender, once client.start has succeeded the client is
\* disconnected exactly once before the run ends, whether the send succeeds,
\* the channel resolution fails or the send fails, and no network operation
\* follows the disconnect; the monitor, when the user session it connected
\* with is not authorized, disconnects, exits with code 1 and registers no
\* message handler.
C13_DisconnectedOnceAtTheEnd ==
    /\ Sender =>
          /\ \A k \in Ops("disconnect") : k = Len(net)
          /\ Ops("disconnect") # {} => pc = "exited"
          /\ (pc = "exited" /\ \E k \in Ops("start") : net[k].ok)
                => Cardinality(Ops("disconnect")) = 1
    /\ (script = "monitor" /\ \E k \in Ops("is_user_authorized") : ~net[k].ok) =>
          /\ Exited(1)
          /\ Cardinality(Ops("disconnect")) = 1
          /\ net[Len(net)].op = "disconnect"
          /\ \A k \in Ops("is_user_authorized") : k = Len(net) - 1
          /\ ~registered
          /\ events = <<>> /\ handlers = <<>> /\ sink = <<>>

\* a run whose send failed after a successful start and resolution ended
\* disconnected
C13_Witness ==
    /\ Sender /\ Exited(5)
    /\ \E k \in Ops("start") : net[k].ok
    /\ \E k \in SendOps : ~net[k].ok
    /\ net[Len(net)].op = "disconnect"

=============================================================================
